---- MODULE Spec2Model ----
(***************************************************************************)
(* Model of src/models/image.rs: the images table, the upload directory    *)
(* and the find-or-create resolver Image::get_with_size, run by concurrent *)
(* callers.  Every step that touches the table or the file system is one   *)
(* action, so the callers interleave at exactly those points.              *)
(*                                                                         *)
(*   images  the rows of the images table, in the order of their ids       *)
(*   files   the upload directory: path -> content, None for a file that   *)
(*           was created and not (or not wholly) written                   *)
(*   clock   the wall clock, in seconds                                    *)
(*   frame   per caller: the call it is in (get_with_size, an upload, or   *)
(*           create_from_image_with_size by itself) and where it stands,   *)
(*           with the arguments and the locals of the call                 *)
(*   last    the call that returned in the step just taken, with what it   *)
(*           returned; None after any other step                           *)
(*                                                                         *)
(* Every caller resolves and uploads in any state.  Spec runs two callers  *)
(* within one second; SpecSeq one caller over the seconds; SpecNew one     *)
(* caller that also uses the constructors of NewImage by themselves;       *)
(* SpecSigned one caller that also passes a negative width; SpecStored one *)
(* caller on rows that another writer stores with any host_type and format *)
(* code; SpecFormats one caller that uploads in every format.  They differ *)
(* in the requests and formats the callers draw from.                      *)
(*                                                                         *)
(* Rows are only inserted: nothing in the file updates or deletes one.     *)
(* The columns created_at and updated_at, which the code never reads, and  *)
(* a failure to get a connection from the pool are left out.               *)
(***************************************************************************)
EXTENDS Integers, Sequences, FiniteSets, TLC

VARIABLES images, files, clock, frame, last

vars == <<images, files, clock, frame, last>>

(* ------------------------------ bounds --------------------------------- *)

\* Most rows the images table holds in a run.
MaxImages == 3

\* The seconds the wall clock shows in a run (SystemTime::now().as_secs()).
Seconds == {0, 1}

\* The concurrent callers (request handlers).
Callers == {"c1", "c2"}

\* Requested (width, height) pairs of the concurrent callers.
Requests == {<<200, 150>>}

\* Requested (width, height) pairs of the caller that runs alone.
SeqRequests == {<<100, 80>>, <<101, 80>>, <<101, 76>>, <<100, 76>>}

\* Requested pairs of a caller that also passes a negative width.
SignedRequests == {<<100, 80>>, <<-1, 80>>}

\* Requested pairs of the caller that reads rows of another writer.
StoredRequests == {<<100, 80>>}

\* Requested pairs of the caller that uses the constructors of NewImage.
NewRequests == {<<200, 150>>, <<100, 80>>}

\* Requested pairs of the calls of create_from_image_with_size by itself.
DirectRequests == {<<200, 150>>}

\* Requested pairs of the caller that uploads in every format.
FormatsRequests == {<<200, 150>>, <<100, 80>>}

\* Dimensions of the images that get uploaded as originals.
UploadDims == {<<1024, 768>>}

\* Formats of the uploads (values of the image crate's ImageFormat).
UploadFormats == {"PNG", "JPEG"}

\* The path a caller of NewImage::new passes.
NewPath == <<"/assets/uploads/", "new">>

(* --------------------------- Option<T> --------------------------------- *)

None == <<>>
Some(v) == <<v>>

(* ------------------- enums and their conversions ----------------------- *)

\* enum ImageType { Local, Base64 } with #[repr(i32)]: the discriminants.
Local == 0
Base64 == 1

\* ImageType::from_i32: the codes 0 and 1, anything else panics.
ImageType_from_i32(i) == IF i \in {Local, Base64} THEN i ELSE "panic"

\* enum ImageFormat { PNG, GIF, JPEG } with #[repr(i32)]: the discriminants.
PNG == 0
GIF == 1
JPEG == 2

\* ImageFormat::from_i32: the codes 0..2, anything else panics.
ImageFormat_from_i32(i) == IF i \in {PNG, GIF, JPEG} THEN i ELSE "panic"

\* The `_ => panic!(..)` arms of ImageType::from_i32 and ImageFormat::from_i32:
\* the codes that abort the thread.
ImageType_panics(i) == i \notin {Local, Base64}
ImageFormat_panics(i) == i \notin {PNG, GIF, JPEG}

\* The host_type and format codes of rows that another writer of the table
\* (a later release, a repair by hand) has stored: in range and out of range.
StoredTypes == {Local, 2}
StoredFormats == {PNG, 3}

\* ImageFormat::as_str: the file extension.
as_str(f) == CASE f = PNG -> "png" [] f = GIF -> "gif" [] f = JPEG -> "jpg"

\* ImageFormat::from_image_format: the image crate's format to the enum.
from_image_format(i) ==
  CASE i = "PNG" -> PNG [] i = "GIF" -> GIF [] i = "JPEG" -> JPEG
    [] OTHER -> "panic"

\* ImageFormat::as_image_format: the enum to the image crate's format.
as_image_format(f) == CASE f = PNG -> "PNG" [] f = GIF -> "GIF" [] f = JPEG -> "JPEG"

\* Image::get_format
get_format(img) == ImageFormat_from_i32(img.format)

(* ------------------------ paths and payloads --------------------------- *)

\* buf.to_base64(..) of the encoded bytes, and its inverse from_base64.
to_base64(bytes) == <<"b64">> \o bytes
from_base64(s) == IF Len(s) > 0 /\ Head(s) = "b64" THEN Some(Tail(s)) ELSE None

\* img.save(&mut buf, fmt): the encoded bytes of an image.
Encode(img, fmt) == <<fmt, img.w, img.h>>

\* image::load_from_memory / image::load: the bytes back to an image.
Decode(bytes) == [w |-> bytes[2], h |-> bytes[3]]

\* format!("./assets/uploads/{}_{}-{}-{}.{}", w, h, secs, suffix, ext)
UploadPath(w, h, secs, suffix, ext) ==
  <<".", "/assets/uploads/", w, h, secs, suffix, ext>>

\* String::from(&path[1..]): the path without its leading dot.
StripDot(path) == Tail(path)

\* Image::get_path
get_path(img) ==
  IF ImageType_from_i32(img.host_type) = Local
  THEN img.path
  ELSE <<"data:image/png;base64,">> \o img.path

\* format!(".{}", img.get_path()): the file a Local record is read from.
OpenPath(img) == <<".">> \o get_path(img)

(* ------------------------------ codec ---------------------------------- *)

\* An f32 that is finite and not negative, as <<m, e>> for the value
\* m * 2^e: <<0, 0>> is zero, every other one has 2^23 <= m < 2^24 (the 24
\* bits of the significand).  The values of the model are far from the ends
\* of the exponent range.
F32Zero == <<0, 0>>

\* The number of bits of n: the least k with n < 2^k.
RECURSIVE BitLen(_)
BitLen(n) == IF n = 0 THEN 0 ELSE 1 + BitLen(n \div 2)

\* The f32 nearest to m * 2^e (m > 0), ties to the even significand; inexact
\* tells that a remainder below the last bit of m was left out.
F32Round(m, e, inexact) ==
  LET n == BitLen(m)
  IN  IF n <= 24
      THEN <<m * 2^(24 - n), e - (24 - n)>>
      ELSE LET s == n - 24
               q == m \div 2^s
               r == m % 2^s
               half == 2^(s - 1)
               up == r > half \/ (r = half /\ (inexact \/ q % 2 = 1))
           IN  IF up /\ q + 1 = 2^24 THEN <<2^23, e + s + 1>>
               ELSE IF up THEN <<q + 1, e + s>>
               ELSE <<q, e + s>>

\* n as f32, for 0 <= n < 2^31.
F32(n) == IF n = 0 THEN F32Zero ELSE F32Round(n, 0, FALSE)

\* x as u32 as f32, for an i32 x: a negative x wraps to 2^32 - k (k = -x),
\* which has 32 bits, so the last 8 are rounded away.
AsU32AsF32(x) ==
  IF x >= 0 THEN F32(x)
  ELSE LET k == 0 - x
           a == k \div 256
           b == k % 256
           q == IF b = 0 THEN 2^24 - a ELSE 2^24 - a - 1
           r == IF b = 0 THEN 0 ELSE 256 - b
           up == r > 128 \/ (r = 128 /\ q % 2 = 1)
       IN  IF up /\ q + 1 = 2^24 THEN <<2^23, 9>>
           ELSE IF up THEN <<q + 1, 8>>
           ELSE <<q, 8>>

\* n more bits of the quotient r / d (r < d), after the bits q: the quotient
\* and the remainder.
RECURSIVE LongDiv(_, _, _, _)
LongDiv(q, r, d, n) ==
  IF n = 0 THEN <<q, r>>
  ELSE IF 2 * r >= d THEN LongDiv(2 * q + 1, 2 * r - d, d, n - 1)
  ELSE LongDiv(2 * q, 2 * r, d, n - 1)

\* a / b in f32, b not zero: the quotient of the significands to 26 binary
\* places, rounded once.
F32Div(a, b) ==
  IF a = F32Zero THEN F32Zero
  ELSE LET qr == LongDiv(a[1] \div b[1], a[1] % b[1], b[1], 26)
       IN  F32Round(qr[1], a[2] - b[2] - 26, qr[2] # 0)

\* a * b in f32: the 48-bit product of the significands, in words of 12
\* bits, rounded once.
F32Mul(a, b) ==
  IF a = F32Zero \/ b = F32Zero THEN F32Zero
  ELSE LET ah == a[1] \div 4096
           al == a[1] % 4096
           bh == b[1] \div 4096
           bl == b[1] % 4096
           lo == al * bl
           mid == ah * bl + al * bh + (lo \div 4096)
           hi == ah * bh + (mid \div 4096)
           rest == (mid % 4096) * 4096 + (lo % 4096)
           big == hi >= 2^23
           q == IF big THEN hi ELSE 2 * hi + (rest \div 2^23)
           r == IF big THEN rest ELSE rest % 2^23
           half == IF big THEN 2^23 ELSE 2^22
           e == a[2] + b[2] + (IF big THEN 24 ELSE 23)
           up == r > half \/ (r = half /\ q % 2 = 1)
       IN  IF up /\ q + 1 = 2^24 THEN <<2^23, e + 1>>
           ELSE IF up THEN <<q + 1, e>>
           ELSE <<q, e>>

\* a > b in f32.
F32Gt(a, b) ==
  IF a = F32Zero THEN FALSE
  ELSE IF b = F32Zero THEN TRUE
  ELSE a[2] > b[2] \/ (a[2] = b[2] /\ a[1] > b[1])

\* a as u32: the fraction is cut off.  (A value of 2^31 or more is no side of
\* an image that fits in memory, and outside the model.)
F32AsU32(a) ==
  CASE a = F32Zero -> 0
    [] a # F32Zero /\ a[2] >= 0 /\ a[2] <= 7 -> a[1] * 2^a[2]
    [] a # F32Zero /\ a[2] < 0 /\ a[2] > -24 -> a[1] \div 2^(0 - a[2])
    [] a # F32Zero /\ a[2] <= -24 -> 0

\* DynamicImage::resize(nwidth, nheight, filter) of the image crate, on an
\* image with sides above 0 and bounds given as f32: the aspect ratio is kept
\* and the image is scaled to fit inside the bounds, in f32 arithmetic,
\*   let ratio = width as f32 / height as f32;
\*   let nratio = nwidth as f32 / nheight as f32;
\*   let scale = if nratio > ratio { nheight as f32 / height as f32 }
\*               else { nwidth as f32 / width as f32 };
\*   ((width as f32 * scale) as u32, (height as f32 * scale) as u32)
\* With a bound of 0 the scale is 0 either way (nratio is then infinite, 0
\* or not a number).
ResizeF32(img, fw, fh) ==
  IF fw = F32Zero \/ fh = F32Zero THEN [w |-> 0, h |-> 0]
  ELSE LET width == F32(img.w)
           height == F32(img.h)
           ratio == F32Div(width, height)
           nratio == F32Div(fw, fh)
           scale == IF F32Gt(nratio, ratio) THEN F32Div(fh, height)
                    ELSE F32Div(fw, width)
       IN  [w |-> F32AsU32(F32Mul(width, scale)),
            h |-> F32AsU32(F32Mul(height, scale))]

\* DynamicImage::resize on bounds that are u32 below 2^31.
Resize(img, nwidth, nheight) == ResizeF32(img, F32(nwidth), F32(nheight))

\* image.resize(width as u32, height as u32, ..) on the i32 arguments of
\* get_with_size: a negative argument wraps to 2^32 + x.
ResizeAsU32(img, width, height) ==
  ResizeF32(img, AsU32AsF32(width), AsU32AsF32(height))

(* ------------------------- the images table ---------------------------- *)

\* SQL's three-valued logic: "t", "f" and "u" (unknown, from a NULL).
And3(a, b) ==
  IF a = "f" \/ b = "f" THEN "f" ELSE IF a = "t" /\ b = "t" THEN "t" ELSE "u"

Or3(a, b) ==
  IF a = "t" \/ b = "t" THEN "t" ELSE IF a = "f" /\ b = "f" THEN "f" ELSE "u"

\* column.eq(v) on a NOT NULL column.
Eq(col, v) == IF col = v THEN "t" ELSE "f"

\* column.eq(v) on a nullable column: NULL = v is unknown.
EqNullable(col, v) == IF col = None THEN "u" ELSE IF col[1] = v THEN "t" ELSE "f"

\* column.is_null()
IsNull(col) == IF col = None THEN "t" ELSE "f"

\* The rows of the table, as a set.
Rows(tbl) == {tbl[i] : i \in 1..Len(tbl)}

\* Mutant of FindFilter: the parent filter is left out.
FindFilter_AnyParent(r, uid, w, h) ==
  Or3(And3(IsNull(r.wanted_width), Or3(Eq(r.width, w), Eq(r.height, h))),
      Or3(EqNullable(r.wanted_width, w), EqNullable(r.wanted_height, h)))

\* Mutant of FindFilter: both wanted dimensions have to equal the request.
FindFilter_BothDims(r, uid, w, h) ==
  And3(EqNullable(r.parent_id, uid),
       Or3(And3(IsNull(r.wanted_width), Or3(Eq(r.width, w), Eq(r.height, h))),
           And3(EqNullable(r.wanted_width, w), EqNullable(r.wanted_height, h))))

\* Mutant of FindFilter: the wanted height alone is no match.
FindFilter_WidthOnly(r, uid, w, h) ==
  And3(EqNullable(r.parent_id, uid),
       Or3(And3(IsNull(r.wanted_width), Or3(Eq(r.width, w), Eq(r.height, h))),
           EqNullable(r.wanted_width, w)))

\* The two .filter(..) calls of find_from_image, ANDed by the query builder.
FindFilter(r, uid, w, h) ==
  And3(EqNullable(r.parent_id, uid),
       Or3(And3(IsNull(r.wanted_width), Or3(Eq(r.width, w), Eq(r.height, h))),
           Or3(EqNullable(r.wanted_width, w), EqNullable(r.wanted_height, h))))

\* .order(width.desc()).order(height.desc()): Diesel's order() sets the ORDER
\* BY clause and overrides one set before (several columns take a tuple), so
\* the query runs ORDER BY height DESC alone.  r may come first iff no other
\* selected row has a greater height; among equals the database picks.
OrderedFirst(r, sel) == \A o \in sel : o.height <= r.height

\* find_from_image: what the query may return on this table, None or Some(row).
\* LIMIT 1 of the ordered selection.
find_from_image(tbl, uid, w, h) ==
  LET sel == {r \in Rows(tbl) : FindFilter(r, uid, w, h) = "t"}
  IN  IF sel = {} THEN {None} ELSE {Some(r) : r \in {x \in sel : OrderedFirst(x, sel)}}

\* Mutant of find: a read that lags behind the writes and does not see the
\* newest row yet.
find_Lagging(tbl, uid) ==
  LET sel == {r \in Rows(tbl) : r.id = uid /\ r.id < Len(tbl)}
  IN  IF sel = {} THEN None ELSE Some(CHOOSE r \in sel : TRUE)

\* find: the row with this id, if any.
find(tbl, uid) ==
  LET sel == {r \in Rows(tbl) : r.id = uid}
  IN  IF sel = {} THEN None ELSE Some(CHOOSE r \in sel : TRUE)

\* The id the table's serial column gives the next row.
NextId(tbl) == Len(tbl) + 1

\* Mutant of create_from: an insert that keeps (parent_id, wanted_width,
\* wanted_height) unique and returns the id of the row that is there.
create_from_Upsert(tbl, new) ==
  LET same == {r \in Rows(tbl) : /\ new.parent_id # None
                                 /\ r.parent_id = new.parent_id
                                 /\ r.wanted_width = new.wanted_width
                                 /\ r.wanted_height = new.wanted_height}
  IN  IF same # {}
      THEN [table |-> tbl, id |-> (CHOOSE r \in same : TRUE).id]
      ELSE [table |-> Append(tbl, [id |-> Len(tbl) + 1,
                                   host_type |-> new.host_type,
                                   path |-> new.path,
                                   width |-> new.width,
                                   height |-> new.height,
                                   parent_id |-> new.parent_id,
                                   wanted_height |-> new.wanted_height,
                                   wanted_width |-> new.wanted_width,
                                   format |-> new.format]),
            id |-> Len(tbl) + 1]

\* Mutant of create_from: the insert of a variant also records the wanted
\* width of that variant in the row of its parent.
create_from_MarksParent(tbl, new) ==
  LET marked == [i \in 1..Len(tbl) |->
                   IF new.parent_id = Some(tbl[i].id)
                   THEN [tbl[i] EXCEPT !.wanted_width = new.wanted_width]
                   ELSE tbl[i]]
  IN  [table |-> Append(marked, [id |-> Len(tbl) + 1,
                                 host_type |-> new.host_type,
                                 path |-> new.path,
                                 width |-> new.width,
                                 height |-> new.height,
                                 parent_id |-> new.parent_id,
                                 wanted_height |-> new.wanted_height,
                                 wanted_width |-> new.wanted_width,
                                 format |-> new.format]),
       id |-> Len(tbl) + 1]

\* Image::create_from: the insert, returning the table and the new id.
create_from(tbl, new) ==
  [table |-> Append(tbl, [id |-> NextId(tbl),
                          host_type |-> new.host_type,
                          path |-> new.path,
                          width |-> new.width,
                          height |-> new.height,
                          parent_id |-> new.parent_id,
                          wanted_height |-> new.wanted_height,
                          wanted_width |-> new.wanted_width,
                          format |-> new.format]),
   id |-> NextId(tbl)]

(* --------------------------- NewImage ---------------------------------- *)

\* The small-image threshold of create_from_dynamic_image.
Threshold == 200

\* Mutant of Inline: the threshold itself still counts as small.
Inline_AtMost(dims) == dims.w <= Threshold /\ dims.h <= Threshold

\* create_from_dynamic_image: an image below the threshold on both axes is
\* stored in the record, any other in a file.
Inline(dims) == dims.w < Threshold /\ dims.h < Threshold

\* NewImage::new(typ, path): no dimensions, no parent, format 0.
NewImage_new(typ, path) ==
  [path |-> path,
   host_type |-> typ,
   width |-> 0,
   height |-> 0,
   parent_id |-> None,
   wanted_height |-> None,
   wanted_width |-> None,
   format |-> 0]

\* The NewImage that create_from_dynamic_image returns.
NewImageOf(path, typ, dims, fmt) ==
  [path |-> path,
   host_type |-> typ,
   width |-> dims.w,
   height |-> dims.h,
   parent_id |-> None,
   wanted_height |-> None,
   wanted_width |-> None,
   format |-> from_image_format(fmt)]

\* Mutant of WithSize: the parent is not recorded.
WithSize_NoParent(new, img, width, height) ==
  [new EXCEPT !.wanted_height = Some(height),
              !.wanted_width = Some(width)]

\* Mutant of WithSize: the wanted height is not recorded.
WithSize_OnlyWidth(new, img, width, height) ==
  [new EXCEPT !.parent_id = Some(img.id),
              !.wanted_width = Some(width)]

\* create_from_image_with_size, after the placement: the three assignments.
WithSize(new, img, width, height) ==
  [new EXCEPT !.parent_id = Some(img.id),
              !.wanted_height = Some(height),
              !.wanted_width = Some(width)]

\* The suffix create_from_image_with_size passes: format!("orig_{}", img.id).
OrigSuffix(img) == <<"orig_", img.id>>

\* The suffix an upload passes.
UploadSuffix == <<"upload">>

(* ------------------------------ callers -------------------------------- *)

\* Result<Image, FurryError>, and the panic of an expect.
Ok(img) == [kind |-> "ok", image |-> Some(img), error |-> "none"]
Err(e) == [kind |-> "err", image |-> None, error |-> e]
Panic == [kind |-> "panic", image |-> None, error |-> "none"]

\* The panic of from_i32 on a code that is out of range.
Abort(what) == [kind |-> "panic", image |-> None, error |-> what]

\* A caller that is in no call.  In a call of get_with_size, the frame holds
\* the arguments (self, width, height) and the locals; after is what the call
\* that returned just before this one began left, when it had the same
\* arguments.
IdleFrame ==
  [pc |-> "idle", op |-> "none", self |-> None, width |-> 0, height |-> 0,
   image |-> None, fmt |-> "PNG", path |-> None, new_image |-> None,
   img_id |-> 0, after |-> None]

\* Caller c takes a step that leaves its call in frame f.
Step(c, f) ==
  /\ frame' = [frame EXCEPT ![c] = f]
  /\ last' = None

\* Caller c's call op, in frame f, returns r; hit tells that the result is a
\* row find_from_image found.  last holds the call that has just returned.
Return(c, op, f, r, hit) ==
  /\ frame' = [frame EXCEPT ![c] = IdleFrame]
  /\ last' = Some([caller |-> c, op |-> op, self |-> f.self, width |-> f.width,
                   height |-> f.height, result |-> r, hit |-> hit,
                   img_id |-> f.img_id, after |-> f.after])

Init ==
  /\ images = <<>>
  /\ files = <<>>
  /\ clock = 0
  /\ frame = [c \in Callers |-> IdleFrame]
  /\ last = None

\* The file at path holds content (None: created and not yet written).
WriteFile(fs, path, content) ==
  [p \in DOMAIN fs \cup {path} |-> IF p = path THEN content ELSE fs[p]]

\* create_from_image_with_size, lines 153-166: the parent's image, read from
\* its file or from its base64 payload; None when it cannot be read.
Load(img, fs) ==
  IF ImageType_from_i32(img.host_type) = Local
  THEN IF OpenPath(img) \in DOMAIN fs /\ fs[OpenPath(img)] # None
          /\ fs[OpenPath(img)][1][1] = as_image_format(get_format(img))
       THEN Some(Decode(fs[OpenPath(img)][1]))
       ELSE None
  ELSE IF from_base64(img.path) # None
       THEN Some(Decode(from_base64(img.path)[1]))
       ELSE None

\* The file create_from_dynamic_image writes an image of these dimensions to.
FilePath(dims, suffix, fmt) ==
  UploadPath(dims.w, dims.h, clock, suffix, as_str(from_image_format(fmt)))

\* The call a frame belongs to: "get_with_size", "upload", or
\* "create_from_image_with_size" when that function is called by itself.
OpOf(f) == f.op

\* The record create_from_dynamic_image returned, as the call passes it to
\* Image::create_from: create_from_image_with_size makes the assignments of
\* lines 172-174, an upload passes it as it is.
Assigned(f, new) ==
  IF f.op = "upload" THEN new ELSE WithSize(new, f.self[1], f.width, f.height)

\* create_from_dynamic_image as far as the record (stored inline) or the
\* created file: the frame after it, from frame f.
Place(f, dims, suffix, fmt) ==
  IF Inline(dims)
  THEN [f EXCEPT !.pc = "insert",
                 !.new_image =
                    Some(Assigned(f, NewImageOf(to_base64(Encode(dims, "PNG")),
                                                Base64, dims, fmt)))]
  ELSE [f EXCEPT !.pc = "save", !.image = Some(dims), !.fmt = fmt,
                 !.path = Some(FilePath(dims, suffix, fmt))]

\* The files after that step: File::create truncates or creates the file.
PlaceFiles(dims, suffix, fmt) ==
  IF Inline(dims) THEN files
  ELSE WriteFile(files, FilePath(dims, suffix, fmt), None)

\* Mutant of NeedsDownscale: an image as large as the request counts as larger.
NeedsDownscale_OrEqual(img, width, height) ==
  img.width >= width \/ img.height >= height

\* Does get_with_size(width, height) on img look for a smaller variant?
NeedsDownscale(img, width, height) == img.width > width \/ img.height > height

\* Image::get_with_size, lines 104-106 and 112-115: the size test and the
\* lookup.  The caller holds img, a row it has read from the table.
GetWithSize(c, img, width, height) ==
  /\ frame[c].pc = "idle"
  /\ LET f == [IdleFrame EXCEPT
                 !.op = "get_with_size",
                 !.self = Some(img), !.width = width, !.height = height,
                 !.after =
                    IF last # None /\ last[1].op = "get_with_size"
                       /\ last[1].result.kind = "ok" /\ last[1].self = Some(img)
                       /\ last[1].width = width /\ last[1].height = height
                    THEN Some([rid |-> last[1].result.image[1].id,
                               created |-> last[1].img_id # 0])
                    ELSE None]
     IN  IF NeedsDownscale(img, width, height)
         THEN \/ Return(c, "get_with_size", f, Err("lookup"), FALSE)
              \/ \E r \in find_from_image(images, img.id, width, height) :
                   IF r = None
                   THEN Step(c, [f EXCEPT !.pc = "create"])
                   ELSE Return(c, "get_with_size", f, Ok(r[1]), TRUE)
         ELSE Return(c, "get_with_size", f, Ok(img), FALSE)
  /\ UNCHANGED <<images, files, clock>>

\* Can the parent's bytes be reached: File::open of a Local record's file, or
\* from_base64 and the decoding of an inline record's payload?
Readable(img, fs) ==
  IF ImageType_from_i32(img.host_type) = Local
  THEN OpenPath(img) \in DOMAIN fs
  ELSE from_base64(img.path) # None

\* NewImage::create_from_image_with_size, called by itself (it is public):
\* the call begins; it goes the way of a lookup miss of get_with_size as far
\* as the record, which it returns and does not insert.
CallCreateFromImageWithSize(c, img, width, height) ==
  /\ frame[c].pc = "idle"
  /\ Step(c, [IdleFrame EXCEPT !.pc = "create",
                               !.op = "create_from_image_with_size",
                               !.self = Some(img), !.width = width,
                               !.height = height])
  /\ UNCHANGED <<images, files, clock>>

\* NewImage::create_from_image_with_size, lines 153-166: the parent is read
\* and decoded, from its file or from its inline payload.  Opening and
\* decoding can fail.  On a record whose host_type is out of range, from_i32
\* panics at line 154; on a Local one whose format is out of range,
\* get_format panics at line 159, after File::open.
CreateFromImageWithSize(c) ==
  /\ frame[c].pc = "create"
  /\ LET f == frame[c]
         img == f.self[1]
         src == Load(img, files)
     IN  IF ImageType_panics(img.host_type)
         THEN Return(c, OpOf(f), f, Abort("image type"), FALSE)
         ELSE IF ImageType_from_i32(img.host_type) = Local
                 /\ ImageFormat_panics(img.format)
         THEN \/ Return(c, OpOf(f), f, Err("load"), FALSE)
              \/ /\ Readable(img, files)
                 /\ Return(c, OpOf(f), f, Abort("image format"), FALSE)
         ELSE \/ Return(c, OpOf(f), f, Err("load"), FALSE)
              \/ /\ src # None
                 /\ Step(c, [f EXCEPT !.pc = "resize", !.image = src])
  /\ UNCHANGED <<images, files, clock>>

\* The record a finished create_from_image_with_size hands on: get_with_size
\* goes on to insert it, a call of the function by itself returns it.
Built(c, f) ==
  IF f.op = "create_from_image_with_size"
  THEN Return(c, OpOf(f), f, Ok(f.new_image[1]), FALSE)
  ELSE Step(c, f)

\* NewImage::create_from_image_with_size, lines 168-171, with
\* create_from_dynamic_image, lines 179-198: the decoded image is resized
\* and then encoded in a record, or its file is created.  Encoding and
\* File::create can fail.  On an inline record whose format is out of range,
\* get_format panics at line 170, after the resizing.
CreateFromDynamicImage(c) ==
  /\ frame[c].pc = "resize"
  /\ LET f == frame[c]
         img == f.self[1]
         dims == ResizeAsU32(f.image[1], f.width, f.height)
         fmt == as_image_format(get_format(img))
     IN  IF ImageFormat_panics(img.format)
         THEN /\ Return(c, OpOf(f), f, Abort("image format"), FALSE)
              /\ UNCHANGED files
         ELSE \/ /\ Return(c, OpOf(f), f, Err("place"), FALSE)
                 /\ UNCHANGED files
              \/ /\ IF Inline(dims)
                    THEN Built(c, Place(f, dims, OrigSuffix(img), fmt))
                    ELSE Step(c, Place(f, dims, OrigSuffix(img), fmt))
                 /\ files' = PlaceFiles(dims, OrigSuffix(img), fmt)
  /\ UNCHANGED <<images, clock>>

\* An upload begins: NewImage::create_from_dynamic_image on the uploaded
\* image, lines 179-198, as far as the record (stored inline) or the created
\* file.  The encoding and File::create can fail; img.save and the insert are
\* the steps Save and CreateFrom, as for a variant.  (The code that calls
\* create_from_dynamic_image for an upload is not in this file.)
Upload(c, dims, fmt) ==
  /\ frame[c].pc = "idle"
  /\ \/ /\ Return(c, "upload", IdleFrame, Err("place"), FALSE)
        /\ UNCHANGED files
     \/ /\ Step(c, Place([IdleFrame EXCEPT !.op = "upload"], dims,
                         UploadSuffix, fmt))
        /\ files' = PlaceFiles(dims, UploadSuffix, fmt)
  /\ UNCHANGED <<images, clock>>

\* Mutant of Save: the record is inserted before the file is written, so a
\* failed write leaves it behind.
Save_InsertsFirst(c) ==
  /\ frame[c].pc = "save"
  /\ LET f == frame[c]
         dims == f.image[1]
         new == Assigned(f, NewImageOf(StripDot(f.path[1]), Local, dims, f.fmt))
     IN  \/ /\ Len(images) < MaxImages
            /\ Return(c, OpOf(f), f, Err("save"), FALSE)
            /\ images' = create_from(images, new).table
            /\ UNCHANGED files
         \/ /\ Built(c, [f EXCEPT !.pc = "insert", !.new_image = Some(new)])
            /\ files' = WriteFile(files, f.path[1], Some(Encode(dims, f.fmt)))
            /\ UNCHANGED images
  /\ UNCHANGED clock

\* create_from_dynamic_image, lines 199-213, and for a variant the
\* assignments of lines 172-174: img.save into the created file, and the
\* record.  A failed img.save leaves the created file as it is.
Save(c) ==
  /\ frame[c].pc = "save"
  /\ LET f == frame[c]
         dims == f.image[1]
         new == NewImageOf(StripDot(f.path[1]), Local, dims, f.fmt)
     IN  \/ /\ Return(c, OpOf(f), f, Err("save"), FALSE)
            /\ UNCHANGED files
         \/ /\ Built(c, [f EXCEPT !.pc = "insert",
                                  !.new_image = Some(Assigned(f, new))])
            /\ files' = WriteFile(files, f.path[1], Some(Encode(dims, f.fmt)))
  /\ UNCHANGED <<images, clock>>

\* Mutant of CreateFrom: a failed insert removes the file the call has
\* written.
CreateFrom_Cleanup(c) ==
  /\ frame[c].pc = "insert"
  /\ LET f == frame[c]
         ins == create_from(images, f.new_image[1])
         written == IF f.path = None THEN {} ELSE {f.path[1]}
     IN  \/ /\ Return(c, OpOf(f), f, Err("insert"), FALSE)
            /\ files' = [p \in DOMAIN files \ written |-> files[p]]
            /\ UNCHANGED images
         \/ /\ Len(images) < MaxImages
            /\ images' = ins.table
            /\ IF f.op = "upload"
               THEN Return(c, "upload", [f EXCEPT !.img_id = ins.id],
                           Ok(ins.table[ins.id]), FALSE)
               ELSE Step(c, [f EXCEPT !.pc = "reload", !.img_id = ins.id])
            /\ UNCHANGED files
  /\ UNCHANGED clock

\* Image::create_from, the insert: line 109 of get_with_size, which goes on
\* to reload the row, and the insert of an upload, which returns with the
\* new id.  A failed insert leaves the file the call has written.
CreateFrom(c) ==
  /\ frame[c].pc = "insert"
  /\ LET f == frame[c]
         ins == create_from(images, f.new_image[1])
     IN  \/ /\ Return(c, OpOf(f), f, Err("insert"), FALSE)
            /\ UNCHANGED images
         \/ /\ Len(images) < MaxImages
            /\ images' = ins.table
            /\ IF f.op = "upload"
               THEN Return(c, "upload", [f EXCEPT !.img_id = ins.id],
                           Ok(ins.table[ins.id]), FALSE)
               ELSE Step(c, [f EXCEPT !.pc = "reload", !.img_id = ins.id])
  /\ UNCHANGED <<files, clock>>

\* Image::get_with_size, line 110: find(img_id) and the expect.
Reload(c) ==
  /\ frame[c].pc = "reload"
  /\ LET f == frame[c]
         x == find(images, f.img_id)
     IN  \/ Return(c, "get_with_size", f, Err("reload"), FALSE)
         \/ IF x = None
            THEN Return(c, "get_with_size", f, Panic, FALSE)
            ELSE Return(c, "get_with_size", f, Ok(x[1]), FALSE)
  /\ UNCHANGED <<images, files, clock>>

\* A caller builds a record with NewImage::new and persists it with
\* Image::create_from, as an original: the insert fails or stores the row.
New(c, typ, path) ==
  /\ frame[c].pc = "idle"
  /\ LET ins == create_from(images, NewImage_new(typ, path))
     IN  \/ /\ Return(c, "new", IdleFrame, Err("insert"), FALSE)
            /\ UNCHANGED images
         \/ /\ Len(images) < MaxImages
            /\ Return(c, "new", [IdleFrame EXCEPT !.img_id = ins.id],
                      Ok(ins.table[ins.id]), FALSE)
            /\ images' = ins.table
  /\ UNCHANGED <<files, clock>>

\* Another writer of the table stores an original, with its file: a row as an
\* upload leaves it, but for the codes of its host_type and format.
Stored(typ, fmt) ==
  /\ Len(images) < MaxImages
  /\ \E d \in UploadDims :
       LET dims == [w |-> d[1], h |-> d[2]]
           path == UploadPath(dims.w, dims.h, clock, <<"stored">>, "png")
           new == [path |-> StripDot(path), host_type |-> typ,
                   width |-> dims.w, height |-> dims.h, parent_id |-> None,
                   wanted_height |-> None, wanted_width |-> None, format |-> fmt]
       IN  /\ images' = create_from(images, new).table
           /\ files' = WriteFile(files, path, Some(Encode(dims, "PNG")))
  /\ last' = None
  /\ UNCHANGED <<clock, frame>>

\* Image::get_path on a row the caller has read: the path or the data URL
\* (get_path(img), not kept in the result), or the panic of from_i32.
GetPath(c, img) ==
  /\ frame[c].pc = "idle"
  /\ Return(c, "get_path", [IdleFrame EXCEPT !.self = Some(img)],
            IF ImageType_panics(img.host_type) THEN Abort("image type") ELSE Ok(img),
            FALSE)
  /\ UNCHANGED <<images, files, clock>>

\* A second passes.
Tick ==
  /\ clock + 1 \in Seconds
  /\ clock' = clock + 1
  /\ UNCHANGED <<images, files, frame, last>>

\* The steps of caller c, in any state: it resolves with requests drawn from
\* reqs and it uploads in the formats fmts.
CallerNext(c, reqs, fmts) ==
  \/ \E img \in Rows(images) : \E r \in reqs : GetWithSize(c, img, r[1], r[2])
  \/ CreateFromImageWithSize(c)
  \/ CreateFromDynamicImage(c)
  \/ \E d \in UploadDims : \E fmt \in fmts :
       Upload(c, [w |-> d[1], h |-> d[2]], fmt)
  \/ Save(c)
  \/ CreateFrom(c)
  \/ Reload(c)

\* The callers run concurrently, within one second of the clock.
Next == \E c \in Callers : CallerNext(c, Requests, {"PNG"})

Spec == Init /\ [][Next]_vars

\* One caller alone, over the seconds of the clock: its calls follow one
\* another and nothing interleaves.
NextSeq ==
  \/ CallerNext("c1", SeqRequests, {"PNG"})
  \/ Tick

SpecSeq == Init /\ [][NextSeq]_vars

\* One caller alone whose requests are any i32, a negative width among them.
NextSigned == CallerNext("c1", SignedRequests, {"PNG"})

SpecSigned == Init /\ [][NextSigned]_vars

\* One caller alone on a table that another writer stores rows in.
NextStored ==
  \/ CallerNext("c1", StoredRequests, {"PNG"})
  \/ \E typ \in StoredTypes : \E fmt \in StoredFormats : Stored(typ, fmt)
  \/ \E img \in Rows(images) : GetPath("c1", img)

SpecStored == Init /\ [][NextStored]_vars

\* One caller alone that also uses the constructors of NewImage by
\* themselves: it persists records of NewImage::new, and it calls
\* create_from_image_with_size without get_with_size.
NextNew ==
  \/ CallerNext("c1", NewRequests, {"PNG"})
  \/ \E typ \in {Local, Base64} : New("c1", typ, NewPath)
  \/ \E img \in Rows(images) : \E r \in DirectRequests :
       CallCreateFromImageWithSize("c1", img, r[1], r[2])

SpecNew == Init /\ [][NextNew]_vars

\* One caller alone that uploads in every format.
NextFormats == CallerNext("c1", FormatsRequests, UploadFormats)

SpecFormats == Init /\ [][NextFormats]_vars

(* ------------------------------ claims --------------------------------- *)

\* A call of get_with_size has just returned; Call is that call and Got the
\* record it returned.
Returned == last # None /\ last[1].op = "get_with_size"
ReturnedOk == Returned /\ last[1].result.kind = "ok"
Call == last[1]
Got == last[1].result.image[1]

\* This step is caller c's, and a call of get_with_size returns in it.
Returns(c) ==
  /\ last' # None
  /\ last' # last
  /\ last'[1].caller = c
  /\ last'[1].op = "get_with_size"

\* This step is caller c's call of get_with_size from its beginning: it
\* returns in the step, or it goes on to create the variant.
Calls(c) ==
  /\ frame[c].pc = "idle"
  /\ \/ Returns(c)
     \/ frame'[c].pc = "create" /\ frame'[c].op = "get_with_size"

\* The arguments of the call that Calls(c) begins.
CallSelf(c) == IF frame'[c].pc = "create" THEN frame'[c].self[1] ELSE last'[1].self[1]
CallWidth(c) == IF frame'[c].pc = "create" THEN frame'[c].width ELSE last'[1].width
CallHeight(c) == IF frame'[c].pc = "create" THEN frame'[c].height ELSE last'[1].height

\* The match rule as the specification words it, for pid's children.
MatchRule(r, pid, w, h) ==
  /\ r.parent_id = Some(pid)
  /\ \/ r.wanted_width = None /\ (r.width = w \/ r.height = h)
     \/ r.wanted_width = Some(w)
     \/ r.wanted_height = Some(h)

\* C1 as claimed: a successful get_with_size(p, w, h) on a p that needs
\* downscaling returns a record whose parent is p and whose wanted dimensions
\* are exactly (w, h), found or created.
C1_ExactWanted ==
  (ReturnedOk /\ (Call.self[1].width > Call.width \/ Call.self[1].height > Call.height))
    => /\ Got.parent_id = Some(Call.self[1].id)
       /\ Got.wanted_width = Some(Call.width)
       /\ Got.wanted_height = Some(Call.height)

\* C1 amended: a successful get_with_size(p, w, h) on a p that needs
\* downscaling returns a child of p that satisfies the match rule for (w, h),
\* one wanted dimension equal to the request being enough; a record the call
\* created has both wanted dimensions equal to the request.
C1_MatchingChild ==
  (ReturnedOk /\ (Call.self[1].width > Call.width \/ Call.self[1].height > Call.height))
    => /\ MatchRule(Got, Call.self[1].id, Call.width, Call.height)
       /\ Call.img_id # 0 =>
            /\ Got.id = Call.img_id
            /\ Got.wanted_width = Some(Call.width)
            /\ Got.wanted_height = Some(Call.height)

\* C1 witness: a call returned a found child whose wanted width is not the
\* requested one, and a call returned the child it created.
C1_Witness ==
  /\ ReturnedOk
  /\ Call.hit
  /\ Got.parent_id = Some(Call.self[1].id)
  /\ Got.wanted_width # Some(Call.width)
  /\ Got.wanted_height = Some(Call.height)

\* C2: get_with_size(r, w, h) with r.width <= w and r.height <= h returns r
\* itself in its first step, without a lookup result, and leaves the table
\* and the files as they were.
C2_ShortCircuit ==
  [][\A c \in Callers :
       (Calls(c) /\ CallSelf(c).width <= CallWidth(c)
                 /\ CallSelf(c).height <= CallHeight(c))
         => /\ Returns(c)
            /\ last'[1].result = Ok(CallSelf(c))
            /\ ~last'[1].hit
            /\ last'[1].img_id = 0
            /\ images' = images
            /\ files' = files]_vars

\* C2 witness: a call on a record no larger than the request has returned it.
C2_Witness ==
  /\ ReturnedOk
  /\ Call.self[1].width <= Call.width
  /\ Call.self[1].height <= Call.height
  /\ Call.self[1].parent_id # None
  /\ Got = Call.self[1]

\* C3: from any table, the second of two calls of get_with_size(p, w, h)
\* that follow one another returns the id the first returned and inserts
\* nothing.  (The query orders by height alone, OrderedFirst: when matching
\* children of different widths are equally high, either may come first in
\* each of the two lookups.)
C3_SameIdTwice ==
  (ReturnedOk /\ Call.after # None)
    => /\ Got.id = Call.after[1].rid
       /\ Call.img_id = 0

\* C4: two callers that both missed the lookup for the same (parent, w, h)
\* and have both inserted hold distinct ids, of two rows with that same
\* (parent_id, wanted_width, wanted_height).
C4_RaceInsertsTwice ==
  \A c, d \in Callers :
    (/\ c # d
     /\ frame[c].pc = "reload" /\ frame[d].pc = "reload"
     /\ frame[c].self[1].id = frame[d].self[1].id
     /\ frame[c].width = frame[d].width
     /\ frame[c].height = frame[d].height)
      => /\ frame[c].img_id # frame[d].img_id
         /\ \A x \in {c, d} :
              /\ frame[x].img_id \in 1..Len(images)
              /\ images[frame[x].img_id].parent_id = Some(frame[c].self[1].id)
              /\ images[frame[x].img_id].wanted_width = Some(frame[c].width)
              /\ images[frame[x].img_id].wanted_height = Some(frame[c].height)

\* C4 witness: both callers have inserted for the same (parent, w, h), and
\* the table holds two rows with that key.
C4_Witness ==
  /\ frame["c1"].pc = "reload" /\ frame["c2"].pc = "reload"
  /\ frame["c1"].self = frame["c2"].self
  /\ frame["c1"].width = frame["c2"].width
  /\ frame["c1"].height = frame["c2"].height
  /\ \E i, j \in 1..Len(images) :
       /\ i # j
       /\ images[i].parent_id # None
       /\ images[i].parent_id = images[j].parent_id
       /\ images[i].wanted_width = images[j].wanted_width
       /\ images[i].wanted_height = images[j].wanted_height

\* C5: a call of get_with_size(p, w, h) whose lookup finds a child returns a
\* row of the table that satisfies the match rule for (p.id, w, h), and
\* inserts nothing, whatever duplicates the table holds.
C5_HitReturnsMatch ==
  [][\A c \in Callers :
       (Calls(c) /\ Returns(c) /\ last'[1].hit)
         => /\ last'[1].result.kind = "ok"
            /\ last'[1].result.image[1] \in Rows(images)
            /\ MatchRule(last'[1].result.image[1],
                         CallSelf(c).id, CallWidth(c), CallHeight(c))
            /\ last'[1].img_id = 0
            /\ images' = images]_vars

\* C5 witness: a lookup has returned a child while the table holds two rows
\* with the same (parent_id, wanted_width, wanted_height) that both match.
C5_Witness ==
  /\ ReturnedOk
  /\ Call.hit
  /\ \E i, j \in 1..Len(images) :
       /\ i # j
       /\ MatchRule(images[i], Call.self[1].id, Call.width, Call.height)
       /\ MatchRule(images[j], Call.self[1].id, Call.width, Call.height)
       /\ images[i].wanted_width = images[j].wanted_width
       /\ images[i].wanted_height = images[j].wanted_height

\* C6: a record is stored inline (Base64, code 1) if and only if its width
\* and its height are both below 200, and in a file (Local, code 0) if and
\* only if one of them is 200 or more.
C6_InlineIffSmall ==
  \A r \in Rows(images) :
    /\ r.host_type = 1 <=> (r.width < 200 /\ r.height < 200)
    /\ r.host_type = 0 <=> (r.width >= 200 \/ r.height >= 200)

\* C6 witness: the table holds a file-backed variant exactly 200 wide and
\* less than 200 high, and an inline variant.
C6_Witness ==
  /\ \E r \in Rows(images) :
       r.parent_id # None /\ r.width = 200 /\ r.height < 200 /\ r.host_type = 0
  /\ \E r \in Rows(images) :
       r.parent_id # None /\ r.width < 200 /\ r.height < 200 /\ r.host_type = 1

\* C7: every variant stored inline has the format PNG (code 0) in its record.
C7_InlineIsPNG ==
  \A r \in Rows(images) :
    (r.parent_id # None /\ r.host_type = 1) => r.format = 0

\* C8: a call of get_with_size that fails in the lookup, in reading or
\* decoding the parent, in encoding or File::create, or in writing the file,
\* returns the error in that step and has inserted no record; and a step of
\* get_with_size changes the table only from the insert that follows a
\* finished placement.
C8_FailureInsertsNothing ==
  [][\A c \in Callers :
       /\ (/\ Returns(c)
           /\ last'[1].result.kind = "err"
           /\ last'[1].result.error \in {"lookup", "load", "place", "save"})
            => /\ images' = images
               /\ last'[1].img_id = 0
               /\ frame'[c] = IdleFrame
       /\ (frame[c].pc # "idle" /\ frame'[c] # frame[c] /\ images' # images)
            => /\ frame[c].pc = "insert"
               /\ frame[c].new_image # None
               /\ Len(images') = Len(images) + 1
               /\ \A i \in 1..Len(images) : images'[i] = images[i]]_vars

\* C8 witness: a call has returned the error of a failed file write.
C8_Witness ==
  /\ Returned
  /\ Call.result.kind = "err"
  /\ Call.result.error = "save"
  /\ Call.img_id = 0

\* C9: for a parent that needs downscaling, find_from_image(pid, w, h)
\* returns a record if and only if a row of the table has parent_id = pid and
\* satisfies the match rule, and the record it returns is such a row.
C9_FindIffMatch ==
  [][\A c \in Callers :
       (/\ Calls(c)
        /\ (CallSelf(c).width > CallWidth(c) \/ CallSelf(c).height > CallHeight(c))
        /\ ~(Returns(c) /\ last'[1].result.kind = "err"))
         => /\ (Returns(c) /\ last'[1].hit)
                 <=> \E r \in Rows(images) :
                       MatchRule(r, CallSelf(c).id, CallWidth(c), CallHeight(c))
            /\ Returns(c)
                 => MatchRule(last'[1].result.image[1],
                              CallSelf(c).id, CallWidth(c), CallHeight(c))]_vars

\* C9 witness: a lookup has returned a child of the parent while another
\* child of the same parent does not satisfy the match rule.
C9_Witness ==
  /\ ReturnedOk
  /\ Call.hit
  /\ MatchRule(Got, Call.self[1].id, Call.width, Call.height)
  /\ \E o \in Rows(images) :
       /\ o.parent_id = Some(Call.self[1].id)
       /\ ~MatchRule(o, Call.self[1].id, Call.width, Call.height)

\* C10: the child find_from_image returns is first by width descending, then
\* height descending: no matching child is wider, and none as wide is higher.
C10_WidestFirst ==
  (ReturnedOk /\ Call.hit)
    => \A o \in Rows(images) :
         MatchRule(o, Call.self[1].id, Call.width, Call.height)
           => /\ o.width <= Got.width
              /\ o.width = Got.width => o.height <= Got.height

\* A child of pid that was created for a request sharing exactly one of the
\* two dimensions with (w, h).
SharesOne(r, pid, w, h) ==
  /\ r.parent_id = Some(pid)
  /\ r.wanted_width # None
  /\ r.wanted_height # None
  /\ (r.wanted_width = Some(w)) # (r.wanted_height = Some(h))

\* C11: once the table holds a child of p created for (w, h1), a call of
\* get_with_size(p, w, h2) with h2 # h1 on a p that needs downscaling (and
\* likewise one sharing only the height), whose lookup does not fail, returns
\* in its first step a child of p that is in the table, and inserts nothing.
C11_FuzzyHit ==
  [][\A c \in Callers :
       (/\ Calls(c)
        /\ (CallSelf(c).width > CallWidth(c) \/ CallSelf(c).height > CallHeight(c))
        /\ \E r \in Rows(images) :
              SharesOne(r, CallSelf(c).id, CallWidth(c), CallHeight(c))
        /\ ~(Returns(c) /\ last'[1].result.kind = "err"))
         => /\ Returns(c)
            /\ last'[1].hit
            /\ last'[1].result.kind = "ok"
            /\ last'[1].result.image[1] \in Rows(images)
            /\ last'[1].result.image[1].parent_id = Some(CallSelf(c).id)
            /\ last'[1].img_id = 0
            /\ images' = images
            /\ files' = files]_vars

\* C11 witness: a call has been answered by a child created for the same
\* width and another height, while no child for the requested pair exists.
C11_Witness ==
  /\ ReturnedOk
  /\ Call.hit
  /\ Call.img_id = 0
  /\ Got.wanted_width = Some(Call.width)
  /\ Got.wanted_height # None
  /\ Got.wanted_height # Some(Call.height)
  /\ \A r \in Rows(images) :
        ~(/\ r.parent_id = Some(Call.self[1].id)
          /\ r.wanted_width = Some(Call.width)
          /\ r.wanted_height = Some(Call.height))

\* C12: on the miss path, once create_from has returned an id, find(id)
\* yields the row with that id and the fields that were inserted, whatever
\* the other callers do meanwhile; no call returns from the panic of the
\* expect, and the record a call that inserted returns carries the id of
\* its insert.
C12_ReloadFinds ==
  /\ \A c \in Callers :
        frame[c].pc = "reload"
          => /\ find(images, frame[c].img_id) # None
             /\ find(images, frame[c].img_id)[1].id = frame[c].img_id
             /\ find(images, frame[c].img_id)[1].path = frame[c].new_image[1].path
             /\ find(images, frame[c].img_id)[1].wanted_width = Some(frame[c].width)
             /\ find(images, frame[c].img_id)[1].wanted_height = Some(frame[c].height)
  /\ Returned => Call.result # Panic
  /\ (ReturnedOk /\ Call.img_id # 0) => Got.id = Call.img_id

\* C12 witness: a call has returned the record of its insert after another
\* caller inserted a row between that insert and the reload.
C12_Witness ==
  /\ ReturnedOk
  /\ Call.img_id # 0
  /\ Got.id = Call.img_id
  /\ Len(images) > Call.img_id
  /\ \E c \in Callers : frame[c].pc = "reload" /\ frame[c].img_id > Call.img_id

\* C13: no step removes a row or changes a field of a row that is in the
\* table: a step leaves the table alone or appends one row.  A call of
\* get_with_size appends at most one: its first step appends nothing, the
\* step that appends is the call's insert and leaves the call holding the new
\* id, and a call that holds an id appends nothing more.
C13_WriteOnce ==
  [][/\ Len(images') \in {Len(images), Len(images) + 1}
     /\ \A i \in 1..Len(images) : images'[i] = images[i]
     /\ \A c \in Callers :
          /\ Calls(c) => images' = images
          /\ (/\ frame[c].op = "get_with_size"
              /\ frame'[c] # frame[c] /\ images' # images)
               => /\ frame[c].img_id = 0
                  /\ frame'[c].pc = "reload"
                  /\ frame'[c].img_id = Len(images')
          /\ (frame[c].pc # "idle" /\ frame[c].img_id # 0 /\ frame'[c] # frame[c])
               => images' = images]_vars

\* C13 witness: a call has returned the record it inserted, the third row,
\* after the other caller's call for the same parent had inserted the second;
\* the rows inserted earlier are in the table.
C13_Witness ==
  /\ ReturnedOk
  /\ Call.img_id = 3
  /\ Len(images) = 3
  /\ images[1].parent_id = None
  /\ images[2].parent_id = Some(1)
  /\ images[3].parent_id = Some(1)
  /\ Got = images[3]

\* C14: every row of the table, whether it was built by NewImage::new, by
\* create_from_dynamic_image or by get_with_size, has width > 0 and
\* height > 0.
C14_PositiveDims ==
  \A r \in Rows(images) : r.width > 0 /\ r.height > 0

\* C15: every row has wanted_width and wanted_height both present or both
\* absent; a row that get_with_size created (the rows with a parent, and the
\* record a call returns from its own insert) has both, equal to the request,
\* and a row built by NewImage::new or by create_from_dynamic_image alone
\* (the rows without a parent) has neither.
C15_WantedBothOrNone ==
  /\ \A r \in Rows(images) :
        /\ (r.wanted_width = None) <=> (r.wanted_height = None)
        /\ r.parent_id # None => (r.wanted_width # None /\ r.wanted_height # None)
        /\ r.parent_id = None => (r.wanted_width = None /\ r.wanted_height = None)
  /\ (ReturnedOk /\ Call.img_id # 0)
       => /\ Got.wanted_width = Some(Call.width)
          /\ Got.wanted_height = Some(Call.height)
  /\ (last # None /\ last[1].op \in {"new", "upload"} /\ last[1].result.kind = "ok")
       => /\ last[1].result.image[1].wanted_width = None
          /\ last[1].result.image[1].wanted_height = None
          /\ last[1].result.image[1] \in Rows(images)

\* C15 witness: a call has returned the variant it created, with both wanted
\* dimensions, for a parent that is itself a variant, under an original that
\* has neither.
C15_Witness ==
  /\ ReturnedOk
  /\ Call.img_id # 0
  /\ Got.wanted_width # None
  /\ Got.wanted_height # None
  /\ Call.self[1].parent_id # None
  /\ images[1].wanted_width = None
  /\ images[1].wanted_height = None

\* C16: the record a successful get_with_size(p, w, h) returns is no wider
\* and no higher than p, whatever the request.
C16_NeverUpscales ==
  ReturnedOk => (Got.width <= Call.self[1].width /\ Got.height <= Call.self[1].height)

\* C17: when the insert fails after the call has written its file, the call
\* returns the error in that step, the table is as it was, the call holds no
\* id, and the file stays where it was written: the step changes no file and
\* the call takes no further step.
C17_InsertFailureLeavesFile ==
  [][\A c \in Callers :
       (/\ frame[c].pc = "insert"
        /\ frame[c].path # None
        /\ Returns(c))
         => /\ last'[1].result = Err("insert")
            /\ last'[1].img_id = 0
            /\ images' = images
            /\ files' = files
            /\ frame[c].path[1] \in DOMAIN files'
            /\ frame[c].new_image[1].path = StripDot(frame[c].path[1])
            /\ frame'[c] = IdleFrame]_vars

\* C17 witness: a call has returned the error of its insert, and a file
\* written for the request of that call is in the upload directory while no
\* row of the table has its path.
C17_Witness ==
  /\ Returned
  /\ Call.result = Err("insert")
  /\ \E p \in DOMAIN files :
       /\ files[p] # None
       /\ files[p][1] = Encode(ResizeAsU32([w |-> Call.self[1].width,
                                            h |-> Call.self[1].height],
                                           Call.width, Call.height), files[p][1][1])
       /\ \A r \in Rows(images) : r.host_type = Local => OpenPath(r) # p

\* C18: no call of get_with_size or get_path ends in a panic, also on a
\* stored row whose host_type or format code is out of range: such a call
\* returns a value or an error.
C18_NoAbort ==
  (last # None /\ last[1].op \in {"get_with_size", "get_path"})
    => last[1].result.kind # "panic"

\* C19: no two rows stored in files (Local) have the same path, also after
\* concurrent calls for the same parent within one second; and no step
\* creates anew or writes the file of a row that is in the table.
C19_DistinctPaths ==
  /\ [](\A i, j \in 1..Len(images) :
          (i # j /\ images[i].host_type = Local /\ images[j].host_type = Local)
            => images[i].path # images[j].path)
  /\ [][\A r \in Rows(images) :
          (r.host_type = Local /\ OpenPath(r) \in DOMAIN files)
            => files'[OpenPath(r)] = files[OpenPath(r)]]_vars

\* C20: a successful get_with_size(p, w, h) returns p itself or a row whose
\* parent_id is p.id, in every interleaving; and whenever a call inserts a
\* row stored in a file, that file is there, written in full with the image
\* of the row.
C20_ChildWithWrittenFile ==
  /\ [](ReturnedOk => \/ Got = Call.self[1]
                      \/ Got.parent_id = Some(Call.self[1].id))
  /\ [][\A c \in Callers :
          (/\ frame[c].pc = "insert"
           /\ frame'[c].pc = "reload"
           /\ images'[Len(images')].host_type = Local)
            => /\ OpenPath(images'[Len(images')]) \in DOMAIN files
               /\ files[OpenPath(images'[Len(images')])] =
                    Some(Encode([w |-> images'[Len(images')].width,
                                 h |-> images'[Len(images')].height],
                                as_image_format(get_format(images'[Len(images')]))))]_vars

====
